---- MODULE Spec2Model ----
(***************************************************************************)
(* rad-router: a radix-tree HTTP router.                                   *)
(*                                                                         *)
(* The model follows lib/node.js (Node, addRoute, addChild, buildStack,    *)
(* reprioritize, pathVariables) and lib/router.js (handle, group, use,     *)
(* serve, walkStack).  Nodes live in an arena: `nodes` is a sequence of    *)
(* node records and a node's identity is its index, so that the in-place   *)
(* mutation of the JavaScript objects (a split keeps the identity of the   *)
(* cursor and gives its old content to a new node) is kept.  Strings are   *)
(* sequences of one-character strings; indices are 0-based as in the       *)
(* source and converted where a sequence is indexed.                       *)
(***************************************************************************)
EXTENDS Integers, Sequences, FiniteSets, TLC

VARIABLES
    app,        \* the repertoire of calls of the program that uses the router
    sortImpl,   \* what Array.prototype.sort does with the boolean comparator
    nodes,      \* the arena of Node objects
    trees,      \* trees[r][m]: root node of router r for method m, 0 = undefined
    regs,       \* ghost: the routes and groups whose registration returned normally
    errs,       \* ghost: the errors that registration calls have thrown
    nreg,       \* ghost: number of registration calls made (handle, group, use)
    last,       \* ghost: the last call and how it ended
    result,     \* what the last serve got from buildStack
    response,   \* what the last serve did with it
    stack,      \* walkStack: the layers not yet shifted
    started,    \* walkStack: the layers invoked so far, in order
    nexts       \* walkStack: how often each invoked layer has called next

vars == <<app, sortImpl, nodes, trees, regs, errs, nreg, last, result, response,
          stack, started, nexts>>

-----------------------------------------------------------------------------
(* Bounds of the model *)

\* registration calls (handle, group, use) per behaviour
MaxCalls == 6

\* layers of a stack given to walkStack on its own
MaxLayers == 3

\* how often one layer may call next
MaxNext == 2

-----------------------------------------------------------------------------
(* Constants of the program *)

ROOT == "root"
STATIC == "static"
PARAM == "param"
WILDCARD == "wildcard"
GROUP == "group"

METHODS == <<"GET", "HEAD", "OPTIONS", "POST", "PUT", "PATCH", "DELETE">>

MethodSet == {METHODS[k] : k \in 1..Len(METHODS)}

\* The two routers of the model: the one that serves, and one attached to it
\* with group.
Main == 1
Sub == 2
Routers == {Main, Sub}

-----------------------------------------------------------------------------
(* Values: handlers, strings *)

NULL == [kind |-> "null", ref |-> 0]
Fn(k) == [kind |-> "fn", ref |-> k]
TreeRef(n) == [kind |-> "tree", ref |-> n]
RouterRef(r) == [kind |-> "router", ref |-> r]
\* a value that is neither a function nor an object
Str(k) == [kind |-> "string", ref |-> k]

Min(a, b) == IF a < b THEN a ELSE b
Max(a, b) == IF a > b THEN a ELSE b

\* String.prototype.substr(start, length), for 0 <= start
Substr(s, start, len) ==
    IF start >= Len(s) \/ len <= 0 THEN <<>>
    ELSE SubSeq(s, start + 1, Min(start + len, Len(s)))

\* String.prototype.substr(start) and slice(start), for 0 <= start
SubstrFrom(s, start) == IF start >= Len(s) THEN <<>> ELSE SubSeq(s, start + 1, Len(s))

\* s[i]; "undefined" outside the string
CharAt(s, i) == IF i >= 0 /\ i < Len(s) THEN s[i + 1] ELSE "undefined"

LowerChar(c) ==
    CASE c = "A" -> "a"
      [] c = "B" -> "b"
      [] c = "C" -> "c"
      [] c = "V" -> "v"
      [] c = "X" -> "x"
      [] c = "Y" -> "y"
      [] c = "F" -> "f"
      [] OTHER -> c

\* A toLowerCase that leaves the letters as they are: what ToLowerCase must
\* not be.
KeepCase(s) == s

\* String.prototype.toLowerCase
ToLowerCase(s) == [k \in 1..Len(s) |-> LowerChar(s[k])]

IsMarker(c) == c = ":" \/ c = "*"

RECURSIVE pathVariables(_)
pathVariables(path) ==
    IF path = <<>> THEN 0
    ELSE (IF IsMarker(Head(path)) THEN 1 ELSE 0) + pathVariables(Tail(path))

-----------------------------------------------------------------------------
(* Node *)

Node(path, varChild, nodeType, maxVars, childKeys, children, handler, priority) ==
    [path |-> path, varChild |-> varChild, nodeType |-> nodeType,
     maxVars |-> maxVars, childKeys |-> childKeys, children |-> children,
     handler |-> handler, priority |-> priority, middleware |-> <<>>]

\* new Node()
EmptyNode == Node(<<>>, FALSE, STATIC, 0, <<>>, <<>>, NULL, 1)

\* The outcome of a call that may throw: the arena as the call left it, and the
\* error thrown ("" when it returned).
Ok(ns) == [nodes |-> ns, err |-> ""]
Throw(ns, e) == [nodes |-> ns, err |-> e]

ErrGroupChild == "Can not add path as child of defined group"
ErrVariable == "Path has an invalid wildcard value"
ErrDuplicate == "A handler is already registered for path"
ErrTwoVars == "only one variable allowed per path segment"
ErrChildren == "variable route conflicts with existing children in path"
ErrUnnamed == "variables must be named in path"
ErrWildEnd == "wildcard routes can only be at the end of the path"
ErrWildHandle == "wildcard conflicts with existing handle for the path segment"
ErrWildSlash == "No '/' before wildcard in path"
ErrSlash == "Path must begin with /"
ErrHandler == "Must pass handler for route"
ErrMethod == "method must be one of the 7 REST methods or *"
\* errors of the language, not of the router
ReferenceError == "ReferenceError"
TypeError == "TypeError"
\* a loop that does not end
Hang == "hang"

-----------------------------------------------------------------------------
(* reprioritize *)

\* Array.prototype.sort is given a comparator that returns a boolean
\* (a.priority < b.priority), which is no consistent comparison function:
\* the resulting order is implementation-defined.  An engine that moves an
\* element only when the comparator is positive for (earlier, later) - insertion
\* and merge sorts - orders the children by descending priority, stably; one
\* that moves an element only when it is negative for (later, earlier) - V8's
\* TimSort - leaves the array as it is.
SortImpls == {"descending", "unchanged"}

RECURSIVE InsertByPriority(_, _, _)
InsertByPriority(ns, pre, e) ==
    IF pre = <<>> THEN <<e>>
    ELSE LET t == pre[Len(pre)]
         IN IF ns[t].priority < ns[e].priority
            THEN Append(InsertByPriority(ns, SubSeq(pre, 1, Len(pre) - 1), e), t)
            ELSE Append(pre, e)

RECURSIVE SortDescending(_, _, _)
SortDescending(ns, done, rest) ==
    IF rest = <<>> THEN done
    ELSE SortDescending(ns, InsertByPriority(ns, done, Head(rest)), Tail(rest))

SortChildren(ns, children) ==
    IF sortImpl = "descending" THEN SortDescending(ns, <<>>, children)
    ELSE children

\* the first index whose node has the path of child
RECURSIVE FirstWithPath(_, _, _, _)
FirstWithPath(ns, children, path, i) ==
    IF i >= Len(children) THEN -1
    ELSE IF ns[children[i + 1]].path = path THEN i
    ELSE FirstWithPath(ns, children, path, i + 1)

RebuildChildKeys(childKeys, index, newIndex) ==
    Substr(childKeys, 0, newIndex)
        \o Substr(childKeys, index, index + 1)
        \o Substr(childKeys, newIndex, index)
        \o SubstrFrom(childKeys, index + 1)

\* this.reprioritize(index) on node id: the arena, the index returned, the error
reprioritize(ns, id, index) ==
    IF index >= Len(ns[id].children)
    THEN \* child is undefined: child.priority++ throws
         [nodes |-> ns, index |-> index, err |-> TypeError]
    ELSE
    LET child == ns[id].children[index + 1]
        ns1 == [ns EXCEPT ![child].priority = @ + 1]
        sorted == SortChildren(ns1, ns1[id].children)
        found == FirstWithPath(ns1, sorted, ns1[child].path, 0)
        newIndex == IF found >= 0 THEN found ELSE index
        ns2 == [ns1 EXCEPT ![id].children = sorted,
                           ![id].childKeys =
                               IF newIndex # index
                               THEN RebuildChildKeys(@, index, newIndex)
                               ELSE @]
    IN [nodes |-> ns2, index |-> newIndex, err |-> ""]

-----------------------------------------------------------------------------
(* addChild *)

\* The scan for the end of a variable's name (lines 310-317): the index of the
\* end, or -1 when a second marker is met.
RECURSIVE NameEnd(_, _)
NameEnd(path, end) ==
    IF end < Len(path) /\ CharAt(path, end) # "/"
    THEN IF IsMarker(CharAt(path, end)) THEN -1 ELSE NameEnd(path, end + 1)
    ELSE end

\* The `:name` branch.  The node after the variable is built with
\* `group ? GROUP : STATIC`, and addChild has no parameter or variable `group`:
\* evaluating the arguments of that `new Node` throws a ReferenceError, after
\* the variable node was linked in and given its path.
RECURSIVE addChildLoop(_, _, _, _, _, _, _)
addChildParam(ns, cur, i, offset, numVars, path, handler, end) ==
    LET ns1 == IF i > 0 THEN [ns EXCEPT ![cur].path = Substr(path, offset, i)] ELSE ns
        offset1 == IF i > 0 THEN i ELSE offset
        child == Len(ns1) + 1
        ns2 == Append([ns1 EXCEPT ![cur].children = <<child>>,
                                  ![cur].varChild = TRUE],
                      Node(<<>>, FALSE, PARAM, numVars, <<>>, <<>>, NULL, 1))
    IN IF end < Len(path)
       THEN Throw([ns2 EXCEPT ![child].path = Substr(path, offset1, end)],
                  ReferenceError)
       ELSE addChildLoop(ns2, child, i + 1, offset1, numVars - 1, path, handler)

\* A `*name` branch that sets varChild on the node above the marker too: what
\* addChildWildcard must not be.
addChildWildcardVarParent(ns, cur, i, offset, numVars, path, handler, end) ==
    IF end # Len(path) \/ numVars > 1 THEN Throw(ns, ErrWildEnd)
    ELSE IF Len(ns[cur].path) > 0 /\ ns[cur].path[Len(ns[cur].path)] = "/"
    THEN Throw(ns, ErrWildHandle)
    ELSE IF CharAt(path, i - 1) # "/" THEN Throw(ns, ErrWildSlash)
    ELSE
    LET marker == Len(ns) + 1
        leaf == Len(ns) + 2
        ns1 == [ns EXCEPT ![cur].path = Substr(path, offset, i - 1),
                          ![cur].children = <<marker>>,
                          ![cur].varChild = TRUE,
                          ![cur].childKeys = <<CharAt(path, i - 1)>>]
        ns2 == Append(ns1, [Node(<<>>, TRUE, WILDCARD, 1, <<>>, <<>>, NULL, 1)
                               EXCEPT !.children = <<leaf>>])
        ns3 == Append(ns2, Node(SubstrFrom(path, i - 1), FALSE, WILDCARD, 1,
                                <<>>, <<>>, handler, 1))
    IN Ok(ns3)

\* The `*name` branch.
addChildWildcard(ns, cur, i, offset, numVars, path, handler, end) ==
    IF end # Len(path) \/ numVars > 1 THEN Throw(ns, ErrWildEnd)
    ELSE IF Len(ns[cur].path) > 0 /\ ns[cur].path[Len(ns[cur].path)] = "/"
    THEN Throw(ns, ErrWildHandle)
    ELSE IF CharAt(path, i - 1) # "/" THEN Throw(ns, ErrWildSlash)
    ELSE
    LET marker == Len(ns) + 1
        leaf == Len(ns) + 2
        ns1 == [ns EXCEPT ![cur].path = Substr(path, offset, i - 1),
                          ![cur].children = <<marker>>,
                          ![cur].childKeys = <<CharAt(path, i - 1)>>]
        ns2 == Append(ns1, [Node(<<>>, TRUE, WILDCARD, 1, <<>>, <<>>, NULL, 1)
                               EXCEPT !.children = <<leaf>>])
        ns3 == Append(ns2, Node(SubstrFrom(path, i - 1), FALSE, WILDCARD, 1,
                                <<>>, <<>>, handler, 1))
    IN Ok(ns3)

\* The loop of addChild from index i on.  With numVars > 0 and no marker left in
\* the path, path[i] is undefined for ever and the loop does not end.
addChildLoop(ns, cur, i, offset, numVars, path, handler) ==
    IF numVars <= 0
    THEN Ok([ns EXCEPT ![cur].path = SubstrFrom(path, offset),
                       ![cur].handler = handler])
    ELSE IF i >= Len(path) THEN Throw(ns, Hang)
    ELSE IF ~IsMarker(CharAt(path, i))
    THEN addChildLoop(ns, cur, i + 1, offset, numVars, path, handler)
    ELSE
    LET end == NameEnd(path, i + 1)
    IN IF end < 0 THEN Throw(ns, ErrTwoVars)
       ELSE IF Len(ns[cur].children) > 0 THEN Throw(ns, ErrChildren)
       ELSE IF end - i < 2 THEN Throw(ns, ErrUnnamed)
       ELSE IF CharAt(path, i) = ":"
       THEN addChildParam(ns, cur, i, offset, numVars, path, handler, end)
       ELSE addChildWildcard(ns, cur, i, offset, numVars, path, handler, end)

\* node.addChild(numVars, path, handler)
addChild(ns, id, numVars, path, handler) ==
    addChildLoop(ns, id, 0, 0, numVars, path, handler)

-----------------------------------------------------------------------------
(* addRoute *)

\* the length of the common prefix of two strings (lines 137-143)
RECURSIVE CommonPrefix(_, _, _)
CommonPrefix(a, b, i) ==
    IF i < Min(Len(a), Len(b)) /\ a[i + 1] = b[i + 1]
    THEN CommonPrefix(a, b, i + 1)
    ELSE i

\* the greatest maxVars among the children, when greater than m (lines 162-166)
RECURSIVE MaxVarsOf(_, _, _)
MaxVarsOf(ns, children, m) ==
    IF children = <<>> THEN m
    ELSE MaxVarsOf(ns, Tail(children), Max(m, ns[Head(children)].maxVars))

\* The split of node cur at position i of its path (lines 149-177): a new node
\* takes the rest of the path and all the fields of cur but the middleware,
\* which the constructor call does not pass; cur keeps the matched part.
Split(ns, cur, path, i) ==
    LET n == ns[cur]
        child == Len(ns) + 1
        c == Node(SubstrFrom(n.path, i), n.varChild, n.nodeType,
                  MaxVarsOf(ns, n.children, n.maxVars), n.childKeys, n.children,
                  n.handler, n.priority - 1)
    IN Append([ns EXCEPT ![cur].children = <<child>>,
                         ![cur].childKeys = <<n.path[i + 1]>>,
                         ![cur].path = Substr(path, 0, i),
                         ![cur].handler = NULL,
                         ![cur].varChild = FALSE,
                         ![cur].nodeType = STATIC],
              c)

\* the first index i with childKeys[i] = char, or -1 (lines 222-223)
RECURSIVE IndexOfKey(_, _, _)
IndexOfKey(childKeys, char, i) ==
    IF i >= Len(childKeys) THEN -1
    ELSE IF childKeys[i + 1] = char THEN i
    ELSE IndexOfKey(childKeys, char, i + 1)

\* Lines 236-255: a new child for the rest of the path, unless the rest starts
\* with a variable, and addChild on it.
AppendChild(ns, cur, path, numVars, handler, group) ==
    IF ~IsMarker(CharAt(path, 0))
    THEN LET child == Len(ns) + 1
             ns1 == Append([ns EXCEPT ![cur].childKeys = Append(@, CharAt(path, 0)),
                                      ![cur].children = Append(@, child)],
                           Node(<<>>, FALSE, IF group THEN GROUP ELSE STATIC,
                                numVars, <<>>, <<>>, NULL, 0))
             r == reprioritize(ns1, cur, Len(ns1[cur].childKeys) - 1)
         IN IF r.err # "" THEN Throw(r.nodes, r.err)
            ELSE addChild(r.nodes, child, numVars, path, handler)
    ELSE addChild(ns, cur, numVars, path, handler)

\* One turn of the traverse loop (lines 134-271) with cursor cur; cur = 0 is
\* the cursor `undefined`, got from a childKeys longer than children.
RECURSIVE traverse(_, _, _, _, _, _)
traverse(ns0, cur, path0, numVars, handler, group) ==
    IF cur = 0 THEN Throw(ns0, TypeError)
    ELSE
    LET nsA == IF numVars > ns0[cur].maxVars
               THEN [ns0 EXCEPT ![cur].maxVars = numVars] ELSE ns0
        i == CommonPrefix(path0, nsA[cur].path, 0)
        ns == IF i < Len(nsA[cur].path) THEN Split(nsA, cur, path0, i) ELSE nsA
        path == SubstrFrom(path0, i)
        char == CharAt(path, 0)
        k == IndexOfKey(ns[cur].childKeys, char, 0)
    IN
    IF i < Len(path0)
    THEN IF ns[cur].nodeType = GROUP THEN Throw(ns, ErrGroupChild)
         ELSE IF ns[cur].varChild
         THEN \* the variable child; `_this.numVars` is no field of a node, so
              \* the comparison with it is false and nothing is stored
              LET c == ns[cur].children[1]
                  ns1 == [ns EXCEPT ![c].priority = @ + 1]
                  cp == ns1[c].path
              IN IF cp = Substr(path, 0, Len(cp))
                    /\ (Len(cp) = Len(path) \/ CharAt(path, Len(cp)) = "/")
                 THEN traverse(ns1, c, path, numVars - 1, handler, group)
                 ELSE Throw(ns1, ErrVariable)
         ELSE IF ns[cur].nodeType = PARAM /\ char = "/" /\ Len(ns[cur].children) = 1
         THEN LET c == ns[cur].children[1]
              IN traverse([ns EXCEPT ![c].priority = @ + 1], c, path, numVars,
                          handler, group)
         ELSE IF k >= 0
         THEN LET r == reprioritize(ns, cur, k)
              IN IF r.err # "" THEN Throw(r.nodes, r.err)
                 ELSE traverse(r.nodes,
                               IF r.index < Len(r.nodes[cur].children)
                               THEN r.nodes[cur].children[r.index + 1] ELSE 0,
                               path, numVars, handler, group)
         ELSE AppendChild(ns, cur, path, numVars, handler, group)
    ELSE \* i = path.length
         IF ns[cur].handler # NULL THEN Throw(ns, ErrDuplicate)
         ELSE Ok([ns EXCEPT ![cur].handler = handler])

\* node.addRoute(path, handler, group) on the root id
addRoute(ns0, id, path0, handler, group) ==
    LET path == ToLowerCase(path0)
        ns == [ns0 EXCEPT ![id].priority = @ + 1]
        numVars == pathVariables(path)
    IN IF Len(ns[id].path) > 0 \/ Len(ns[id].children) > 0
       THEN traverse(ns, id, path, numVars, handler, group)
       ELSE LET r == addChild(ns, id, numVars, path, handler)
            IN IF r.err # "" THEN r
               ELSE Ok([r.nodes EXCEPT ![id].nodeType = IF group THEN GROUP ELSE ROOT])

-----------------------------------------------------------------------------
(* buildStack *)

\* params[name] = value on the object params, kept as a set of <<name, value>>
SetParam(params, name, value) ==
    {kv \in params : kv[1] # name} \cup {<<name, value>>}

\* A return that leaves the handler off the stack: what Found must not be.
FoundUnappended(params, handler, executionStack) ==
    [params |-> params, handler |-> handler, stack |-> executionStack, err |-> ""]

Found(params, handler, executionStack) ==
    [params |-> params, handler |-> handler,
     stack |-> Append(executionStack, handler), err |-> ""]

Thrown(e) == [params |-> {}, handler |-> NULL, stack |-> <<>>, err |-> e]

\* the index of the first "/" of path at or after end, or path.length
RECURSIVE ValueEnd(_, _)
ValueEnd(path, end) ==
    IF end < Len(path) /\ path[end + 1] # "/" THEN ValueEnd(path, end + 1) ELSE end

WithMiddleware(ns, cur, executionStack) ==
    IF ns[cur].nodeType = ROOT \/ ns[cur].nodeType = GROUP
    THEN executionStack \o ns[cur].middleware
    ELSE executionStack

RECURSIVE buildStack(_, _, _, _)
RECURSIVE lookup(_, _, _, _, _)

\* handler.buildStack(path, method, executionStack) on the value in the handler
\* slot of a GROUP node: group('*', ...) put a tree there, group(method, ...)
\* the Router itself, which has no buildStack.
Delegate(ns, handler, path, executionStack) ==
    IF handler.kind = "tree" THEN buildStack(ns, handler.ref, path, executionStack)
    ELSE Thrown(TypeError)

\* Lines 522-578: the cursor is the PARAM node c.
LookupParam(ns, c, path, executionStack, params0) ==
    LET end == ValueEnd(path, 0)
        params == SetParam(params0, SubstrFrom(ns[c].path, 1), Substr(path, 0, end))
        n == ns[c]
    IN IF end < Len(path)
       THEN IF Len(n.children) > 0
            THEN lookup(ns, n.children[1], SubstrFrom(path, end), executionStack, params)
            ELSE Found(params, IF Len(path) = end + 1 THEN n.handler ELSE NULL,
                       executionStack)
       ELSE IF n.handler # NULL
       THEN Found(params, n.handler, executionStack \o n.middleware)
       ELSE IF Len(n.children) = 1
               /\ ns[n.children[1]].path = <<"/">>
               /\ ns[n.children[1]].handler # NULL
       THEN Found(params, ns[n.children[1]].handler, executionStack)
       ELSE Found(params, NULL, executionStack)

\* A WILDCARD arm that leaves the leading "/" out of the value: what
\* LookupWildcard must not be.
LookupWildcardNoSlash(ns, c, path, exec, params) ==
    Found(SetParam(params, SubstrFrom(ns[c].path, 2), SubstrFrom(path, 1)),
          ns[c].handler, exec \o ns[c].middleware)

\* Lines 580-591: the cursor is the WILDCARD leaf c; the value is all that is
\* left of the path.
LookupWildcard(ns, c, path, exec, params) ==
    Found(SetParam(params, SubstrFrom(ns[c].path, 2), path),
          ns[c].handler, exec \o ns[c].middleware)

\* Lines 469-596: the path is longer than the path of the cursor and starts
\* with it; path is what is left after it.
LookupLonger(ns, cur, path, executionStack, params) ==
    LET n == ns[cur]
        k == IndexOfKey(n.childKeys, CharAt(path, 0), 0)
    IN IF ~n.varChild
       THEN IF n.nodeType = GROUP
            THEN Delegate(ns, n.handler, path, executionStack \o n.middleware)
            ELSE IF k >= 0
            THEN IF k < Len(n.children)
                 THEN lookup(ns, n.children[k + 1], path,
                             WithMiddleware(ns, cur, executionStack), params)
                 ELSE \* the cursor is undefined: _this.path throws
                      Thrown(TypeError)
            ELSE Found(params,
                       IF path = <<"/">> /\ n.handler # NULL THEN n.handler ELSE NULL,
                       executionStack)
       ELSE LET c == n.children[1]
                exec == WithMiddleware(ns, cur, executionStack)
            IN IF ns[c].nodeType = PARAM
               THEN LookupParam(ns, c, path, exec, params)
               ELSE IF ns[c].nodeType = WILDCARD
               THEN LookupWildcard(ns, c, path, exec, params)
               ELSE Thrown("Invalid node type")

\* Lines 599-640: the path is the path of the cursor.
LookupExact(ns, cur, executionStack, params) ==
    LET n == ns[cur]
        k == IndexOfKey(n.childKeys, "/", 0)
    IN IF n.nodeType = GROUP
       THEN Delegate(ns, n.handler, <<"/">>, executionStack)
       ELSE IF n.handler # NULL
       THEN Found(params, n.handler, executionStack \o n.middleware)
       ELSE IF k < 0 THEN Found(params, NULL, executionStack)
       ELSE IF k >= Len(n.children) THEN Thrown(TypeError)
       ELSE LET c == ns[n.children[k + 1]]
            IN IF Len(c.path) = 1 /\ c.handler # NULL
               THEN Found(params, c.handler, executionStack)
               ELSE IF c.nodeType = WILDCARD
               THEN \* a WILDCARD node reached by a key is the marker, which has
                    \* the leaf as its child; a leaf has none and
                    \* _this.children[0].handler throws
                    IF Len(c.children) = 0 THEN Thrown(TypeError)
                    ELSE IF ns[c.children[1]].handler # NULL
                    THEN Found(params,
                               IF c.handler # NULL THEN c.handler
                               ELSE ns[c.children[1]].handler,
                               executionStack)
                    ELSE Found(params, NULL, executionStack)
               ELSE Found(params, NULL, executionStack)

\* Lines 642-653: neither longer-with-prefix nor equal.
LookupFallback(ns, cur, path, executionStack, params) ==
    LET n == ns[cur]
    IN IF path = <<"/">>
          \/ (Len(n.path) = Len(path) + 1
              /\ CharAt(n.path, Len(path)) = "/"
              /\ path = Substr(n.path, 0, Len(n.path) - 1)
              /\ n.handler # NULL)
       THEN Found(params, n.handler, executionStack)
       ELSE Found(params, NULL, executionStack)

\* one turn of the traverse loop of buildStack with cursor cur
lookup(ns, cur, path, executionStack, params) ==
    LET n == ns[cur]
    IN IF Len(path) > Len(n.path) /\ Substr(path, 0, Len(n.path)) = n.path
       THEN LookupLonger(ns, cur, SubstrFrom(path, Len(n.path)), executionStack, params)
       ELSE IF ~(Len(path) > Len(n.path)) /\ path = n.path
       THEN LookupExact(ns, cur, executionStack, params)
       ELSE LookupFallback(ns, cur, path, executionStack, params)

\* node.buildStack(path, method, executionStack) on the root id
buildStack(ns, id, path, executionStack) ==
    lookup(ns, id, ToLowerCase(path), executionStack, {})

-----------------------------------------------------------------------------
(* Router *)

\* The outcome of a call on a router: the arena and the trees as the call left
\* them, and the error thrown ("" when it returned).
Out(ns, tr, e) == [nodes |-> ns, trees |-> tr, err |-> e]

IsObjectOrFunction(handler) == handler.kind \in {"fn", "tree", "router", "null"}

\* router.handle(method, path, handler, group) on router r
handle(ns, tr, r, method, path, handler, group) ==
    IF CharAt(path, 0) # "/" THEN Out(ns, tr, ErrSlash)
    ELSE IF ~IsObjectOrFunction(handler) THEN Out(ns, tr, ErrHandler)
    ELSE LET fresh == tr[r][method] = 0
             root == IF fresh THEN Len(ns) + 1 ELSE tr[r][method]
             ns1 == IF fresh THEN Append(ns, EmptyNode) ELSE ns
             tr1 == IF fresh THEN [tr EXCEPT ![r][method] = root] ELSE tr
             a == addRoute(ns1, root, path, handler, group)
         IN Out(a.nodes, tr1, a.err)

\* The forEach of group('*', ...) from METHODS[k] on: the first handle that
\* throws ends it.
RECURSIVE groupEach(_, _, _, _, _, _)
groupEach(ns, tr, r, prefix, router, k) ==
    IF k > Len(METHODS) THEN Out(ns, tr, "")
    ELSE IF tr[router][METHODS[k]] = 0
    THEN groupEach(ns, tr, r, prefix, router, k + 1)
    ELSE LET h == handle(ns, tr, r, METHODS[k], prefix,
                         TreeRef(tr[router][METHODS[k]]), TRUE)
         IN IF h.err # "" THEN h
            ELSE groupEach(h.nodes, h.trees, r, prefix, router, k + 1)

\* r.group(prefix, router) and r.group(method, prefix, router); the first form
\* is the second with method '*'.  The arguments of the model are always a
\* string and a Router.
group(ns, tr, r, method, prefix, router) ==
    IF method = "*" THEN groupEach(ns, tr, r, prefix, router, 1)
    ELSE handle(ns, tr, r, method, prefix, RouterRef(router), TRUE)

addMiddleware(ns, tr, r, method, middleware) ==
    LET fresh == tr[r][method] = 0
        node == IF fresh THEN Len(ns) + 1 ELSE tr[r][method]
        ns1 == IF fresh THEN Append(ns, EmptyNode) ELSE ns
        tr1 == IF fresh THEN [tr EXCEPT ![r][method] = node] ELSE tr
    IN Out([ns1 EXCEPT ![node].middleware = Append(@, middleware)], tr1, "")

\* r.use(method, middleware); r.use(middleware) is the call with method '*'.
\* For '*' the callback of forEach is a plain function called without a
\* thisArg, so its `this` is not the router and `_this.trees[method]` in
\* addMiddleware throws on the first method.
use(ns, tr, r, method, middleware) ==
    IF method \notin MethodSet /\ method # "*" THEN Out(ns, tr, ErrMethod)
    ELSE IF method = "*" THEN Out(ns, tr, TypeError)
    ELSE addMiddleware(ns, tr, r, method, middleware)

\* request(req, res): req.path = parsed.pathname.toLowerCase() || '/'
RequestPath(pathname) ==
    IF ToLowerCase(pathname) = <<>> THEN <<"/">> ELSE ToLowerCase(pathname)

NoResult == [params |-> {}, handler |-> NULL, stack |-> <<>>, err |-> "none"]

\* A serve that looks in some tree of the router, whatever the method: what
\* dispatch must not be.
dispatchAnyTree(ns, tr, r, method, pathname) ==
    buildStack(ns, tr[r][CHOOSE m \in MethodSet : tr[r][m] # 0],
               RequestPath(pathname), <<>>)

\* what router.serve gets from root.buildStack, when the method has a tree
dispatch(ns, tr, r, method, pathname) ==
    buildStack(ns, tr[r][method], RequestPath(pathname), <<>>)

IsFunction(layer) == layer.kind = "fn"

-----------------------------------------------------------------------------
(* The calls made on the routers *)

\* A behaviour is the run of one program, which draws its calls from one
\* repertoire: registrations of the main router (GET unless said otherwise),
\* of the sub-router, group and use calls, and then a request.
Apps == {"siblings", "slashes", "params", "wildcard", "groups", "methods",
         "uses", "verbgroup", "grammar", "groupshape"}

P_root == <<"/">>
P_a == <<"/", "a">>
P_a_ == <<"/", "a", "/">>
P_a_b == <<"/", "a", "/", "b">>
P_a_b_ == <<"/", "a", "/", "b", "/">>
P_a_c == <<"/", "a", "/", "c">>
P_b == <<"/", "b">>
P_b_ == <<"/", "b", "/">>
P_c == <<"/", "c">>
P_a_x == <<"/", "a", "/", ":", "x">>
P_a_y == <<"/", "a", "/", ":", "y">>
P_a_x_b == <<"/", "a", "/", ":", "x", "/", "b">>
P_a_f == <<"/", "a", "/", "*", "f">>
P_a_v == <<"/", "a", "/", "v">>
P_a_v_ == <<"/", "a", "/", "v", "/">>
P_a_v_b == <<"/", "a", "/", "v", "/", "b">>
P_a_xy == <<"/", "a", "/", ":", "x", ":", "y">>
P_a_colon == <<"/", "a", "/", ":">>
P_a_f_b == <<"/", "a", "/", "*", "f", "/", "b">>
P_af == <<"/", "a", "*", "f">>
P_A == <<"/", "A">>
P_noslash == <<"a">>

Gets(r, paths) == {<<r, "GET", p, "fn">> : p \in paths}

\* handle calls: <<router, method, path, kind of handler>>
HandleCalls(a) ==
    CASE a = "siblings" -> Gets(Main, {P_root, P_a, P_b, P_c, P_a_})
      [] a = "slashes" -> Gets(Main, {P_a, P_a_, P_a_b, P_a_c, P_b})
      [] a = "params" -> Gets(Main, {P_a_x, P_a_y, P_a_x_b, P_a, P_a_b})
      [] a = "wildcard" -> Gets(Main, {P_a_f, P_a, P_a_, P_a_b, P_a_x})
      [] a = "groups" -> Gets(Main, {P_a_b}) \cup Gets(Sub, {P_root, P_b})
      [] a = "methods" -> Gets(Main, {P_a, P_A, P_noslash})
                            \cup {<<Main, "POST", P_a, "fn">>,
                                  <<Main, "GET", P_a, "string">>}
      [] a = "uses" -> Gets(Main, {P_a})
      [] a = "verbgroup" -> Gets(Sub, {P_root, P_b})
      [] a = "grammar" -> Gets(Main, {P_a_f, P_a_f_b, P_a_xy, P_a_colon, P_af})
      [] a = "groupshape" -> Gets(Main, {P_root, P_a_b}) \cup Gets(Sub, {P_root})

\* group calls on the main router: <<method, prefix>>, '*' for group(prefix, router)
GroupCalls(a) ==
    CASE a = "groups" -> {<<"*", P_a>>}
      [] a = "verbgroup" -> {<<"GET", P_a>>}
      [] a = "groupshape" -> {<<"*", P_a>>, <<"*", P_a_x>>}
      [] OTHER -> {}

\* use calls: <<router, method>>, '*' for use(middleware)
UseCalls(a) ==
    CASE a = "groups" -> {<<Main, "GET">>, <<Sub, "GET">>}
      [] a = "uses" -> {<<Main, "*">>, <<Main, "GET">>, <<Main, "POST">>}
      [] a = "verbgroup" -> {<<Sub, "GET">>}
      [] OTHER -> {}

\* requests: <<method, pathname>>
Requests(a) ==
    {<<"HEAD", P_a>>} \cup
    {<<"GET", p>> : p \in
        CASE a = "siblings" -> {P_root, P_a, P_a_, P_b, P_b_, P_c}
          [] a = "slashes" -> {P_root, P_a, P_a_, P_a_b, P_a_b_, P_a_c, P_b}
          [] a = "params" -> {P_a, P_a_, P_a_v, P_a_v_, P_a_v_b, P_a_b,
                              P_a_x, P_a_y, P_a_x_b}
          [] a = "wildcard" -> {P_a, P_a_, P_a_v, P_a_v_b, P_a_b, P_a_f, P_a_x}
          [] a = "groups" -> {P_root, P_a, P_a_, P_a_b, P_a_b_, P_b}
          [] a = "methods" -> {P_a, P_A, P_a_}
          [] a = "uses" -> {P_a}
          [] a = "verbgroup" -> {P_a, P_a_, P_a_b}
          [] a = "grammar" -> {P_a, P_a_v, P_a_v_b, P_a_f_b}
          [] a = "groupshape" -> {P_root, P_a, P_a_v, P_a_b}} \cup
    (IF a = "methods" THEN {<<"POST", P_a>>, <<"POST", P_A>>} ELSE {})

-----------------------------------------------------------------------------
(* The state machine *)

Init ==
    /\ app \in Apps
    /\ sortImpl \in SortImpls
    /\ nodes = <<>>
    /\ trees = [r \in Routers |-> [m \in MethodSet |-> 0]]
    /\ regs = {}
    /\ errs = {}
    /\ nreg = 0
    /\ last = [op |-> "new", router |-> Main, method |-> "", path |-> <<>>,
               handler |-> NULL, err |-> ""]
    /\ result = NoResult
    /\ response = "none"
    /\ stack = <<>>
    /\ started = <<>>
    /\ nexts = <<>>

\* Registration comes before serving, and a behaviour serves one request: no
\* call is made on the router once a request was served.
Serving == response # "none"

\* the ghosts of a registration call that ended as out
Registered(out, op, r, method, path, handler, reg) ==
    /\ nodes' = out.nodes
    /\ trees' = out.trees
    /\ regs' = IF out.err = "" THEN regs \cup reg ELSE regs
    /\ errs' = IF out.err = "" THEN errs ELSE errs \cup {out.err}
    /\ nreg' = nreg + 1
    /\ last' = [op |-> op, router |-> r, method |-> method, path |-> path,
                handler |-> handler, err |-> out.err]
    /\ UNCHANGED <<app, sortImpl, result, response, stack, started, nexts>>

\* r.handle(method, path, handler) with a handler made for this call
Handle(r, method, path, kind) ==
    /\ ~Serving
    /\ nreg < MaxCalls
    /\ LET handler == IF kind = "fn" THEN Fn(nreg + 1) ELSE Str(nreg + 1)
       IN \E out \in {handle(nodes, trees, r, method, path, handler, FALSE)} :
              Registered(out, "handle", r, method, path, handler,
                         {[op |-> "handle", router |-> r, method |-> method,
                           path |-> ToLowerCase(path), handler |-> handler]})

\* Main.group(prefix, Sub) and Main.group(method, prefix, Sub)
Group(method, prefix) ==
    /\ ~Serving
    /\ nreg < MaxCalls
    /\ \E out \in {group(nodes, trees, Main, method, prefix, Sub)} :
           Registered(out, "group", Main, method, prefix, RouterRef(Sub),
                      {[op |-> "group", router |-> Main, method |-> m,
                        path |-> ToLowerCase(prefix),
                        handler |-> IF method = "*" THEN TreeRef(trees[Sub][m])
                                    ELSE RouterRef(Sub)] :
                           m \in IF method = "*"
                                 THEN {m \in MethodSet : trees[Sub][m] # 0}
                                 ELSE {method}})

\* r.use(method, middleware) and r.use(middleware)
Use(r, method) ==
    /\ ~Serving
    /\ nreg < MaxCalls
    /\ \E out \in {use(nodes, trees, r, method, Fn(nreg + 1))} :
           Registered(out, "use", r, method, <<>>, Fn(nreg + 1),
                      {[op |-> "use", router |-> r, method |-> method,
                        path |-> <<>>, handler |-> Fn(nreg + 1)]})

\* walkStack(req, res, stk) up to the return of its first next(): the first
\* layer is shifted off the stack; a null layer ends the walk, a function is
\* called, and calling any other value throws.
Walk(stk) ==
    /\ stack' = Tail(stk)
    /\ started' = IF IsFunction(Head(stk)) THEN <<Head(stk)>> ELSE <<>>
    /\ nexts' = IF IsFunction(Head(stk)) THEN <<0>> ELSE <<>>
    /\ response' = IF IsFunction(Head(stk)) \/ Head(stk) = NULL THEN "walk" ELSE "threw"

\* A serve whose stack is the middleware array of the root itself, so that the
\* shift of walkStack takes the first middleware off the node: what Served
\* must not be.
ServedAliased(method, pathname, root, res) ==
    /\ result' = res
    /\ IF root # 0 /\ res.err = "" /\ res.handler # NULL
       THEN /\ Walk(res.stack)
            /\ nodes' = IF nodes[root].middleware # <<>>
                        THEN [nodes EXCEPT ![root].middleware = Tail(@)]
                        ELSE nodes
       ELSE /\ response' = IF root = 0 THEN "nothing"
                           ELSE IF res.err # "" THEN "threw"
                           ELSE "notFound"
            /\ UNCHANGED <<stack, started, nexts, nodes>>
    /\ last' = [op |-> "serve", router |-> Main, method |-> method,
                path |-> pathname, handler |-> NULL,
                err |-> IF root = 0 THEN "" ELSE res.err]
    /\ UNCHANGED <<app, sortImpl, trees, regs, errs, nreg>>

\* What serve does with the result res of buildStack (lines 224-231); root = 0
\* when the method has no tree.
Served(method, pathname, root, res) ==
    /\ result' = res
    /\ IF root # 0 /\ res.err = "" /\ res.handler # NULL
       THEN Walk(res.stack)
       ELSE /\ response' = IF root = 0 THEN "nothing"
                           ELSE IF res.err # "" THEN "threw"
                           ELSE "notFound"
            /\ UNCHANGED <<stack, started, nexts>>
    /\ last' = [op |-> "serve", router |-> Main, method |-> method,
                path |-> pathname, handler |-> NULL,
                err |-> IF root = 0 THEN "" ELSE res.err]
    /\ UNCHANGED <<app, sortImpl, nodes, trees, regs, errs, nreg>>

\* Main.serve(req, res) for the one request of a behaviour
Serve(method, pathname) ==
    /\ ~Serving
    /\ \E res \in {IF trees[Main][method] = 0 THEN NoResult
                   ELSE dispatch(nodes, trees, Main, method, pathname)} :
           Served(method, pathname, trees[Main][method], res)

Next ==
    \/ \E c \in HandleCalls(app) : Handle(c[1], c[2], c[3], c[4])
    \/ \E c \in GroupCalls(app) : Group(c[1], c[2])
    \/ \E c \in UseCalls(app) : Use(c[1], c[2])
    \/ \E q \in Requests(app) : Serve(q[1], q[2])

Spec == Init /\ [][Next]_vars

-----------------------------------------------------------------------------
(* walkStack on its own: any stack of callables, and layers that call next
   when and as often as they like *)

\* the layers of a stack: three functions and an object that is no function
Layers == {Fn(1), Fn(2), Fn(3), TreeRef(1)}

Stacks == UNION {[1..n -> Layers] : n \in 1..MaxLayers}

\* walkStack(req, res, stk) was called with some stack and has not yet called
\* its first next()
WalkInit ==
    /\ app = "walk"
    /\ sortImpl \in SortImpls
    /\ nodes = <<>>
    /\ trees = [r \in Routers |-> [m \in MethodSet |-> 0]]
    /\ regs = {}
    /\ errs = {}
    /\ nreg = 0
    /\ last = [op |-> "walkStack", router |-> Main, method |-> "", path |-> <<>>,
               handler |-> NULL, err |-> ""]
    /\ \E stk \in Stacks :
           /\ result = [params |-> {}, handler |-> stk[Len(stk)], stack |-> stk,
                        err |-> ""]
           /\ stack = stk
    /\ response = "called"
    /\ started = <<>>
    /\ nexts = <<>>

\* the next() that walkStack calls itself
WalkStart ==
    /\ response = "called"
    /\ Walk(stack)
    /\ UNCHANGED <<app, sortImpl, nodes, trees, regs, errs, nreg, last, result>>

\* A next() that calls the first layer of the stack and leaves it there: what
\* CallNext must not be.
CallNextUnshifted(k) ==
    /\ response = "walk"
    /\ k \in 1..Len(started)
    /\ nexts[k] < MaxNext
    /\ stack # <<>> /\ IsFunction(Head(stack))
    /\ started' = Append(started, Head(stack))
    /\ nexts' = Append([nexts EXCEPT ![k] = @ + 1], 0)
    /\ UNCHANGED <<stack, response>>
    /\ UNCHANGED <<app, sortImpl, nodes, trees, regs, errs, nreg, last, result>>

\* The k-th invoked layer calls next(): the next layer, if there is one, is
\* shifted off the stack and called.  A layer that is no function makes that
\* call throw, and the layers of the model do not catch it.
CallNext(k) ==
    /\ response = "walk"
    /\ k \in 1..Len(started)
    /\ nexts[k] < MaxNext
    /\ IF stack = <<>>
       THEN /\ nexts' = [nexts EXCEPT ![k] = @ + 1]
            /\ UNCHANGED <<stack, started, response>>
       ELSE /\ stack' = Tail(stack)
            /\ IF IsFunction(Head(stack))
               THEN /\ started' = Append(started, Head(stack))
                    /\ nexts' = Append([nexts EXCEPT ![k] = @ + 1], 0)
                    /\ UNCHANGED response
               ELSE /\ response' = "threw"
                    /\ nexts' = [nexts EXCEPT ![k] = @ + 1]
                    /\ UNCHANGED started
    /\ UNCHANGED <<app, sortImpl, nodes, trees, regs, errs, nreg, last, result>>

WalkNext ==
    \/ WalkStart
    \/ \E k \in 1..MaxLayers : CallNext(k)

WalkSpec == WalkInit /\ [][WalkNext]_vars

-----------------------------------------------------------------------------
(* Claims *)

\* the routes registered on router r for a method and a path, with a function
Routes(r, method, path) ==
    {reg \in regs : reg.op = "handle" /\ reg.router = r /\ reg.method = method
                    /\ reg.path = path /\ reg.handler.kind = "fn"}

ServedLast == last.op = "serve"

\* every registration call so far returned normally
AllSucceeded == errs = {}

\* C1: after registrations that all succeeded, a request for a registered path
\* gets exactly the handler registered for that path.
C1_RegisteredPathDispatches ==
    (ServedLast /\ AllSucceeded) =>
        \A reg \in Routes(Main, last.method, RequestPath(last.path)) :
            result.err = "" /\ result.handler = reg.handler

EndsWithSlash(p) == Len(p) > 0 /\ p[Len(p)] = "/"

StartsWith(q, prefix) == Len(q) >= Len(prefix) /\ SubSeq(q, 1, Len(prefix)) = prefix

\* the path and the handler of the request served last
Request == RequestPath(last.path)

Resolved(h) == result.err = "" /\ result.handler = h

\* C2: with all registrations succeeded, a request that differs from a
\* registered path by one trailing "/" and is not registered itself gets the
\* handler of that path.
C2_TrailingSlashEquivalence ==
    (ServedLast /\ AllSucceeded /\ Routes(Main, last.method, Request) = {}) =>
        /\ \A reg \in Routes(Main, last.method, Request \o <<"/">>) :
               Resolved(reg.handler)
        /\ EndsWithSlash(Request) =>
               \A reg \in Routes(Main, last.method, SubSeq(Request, 1, Len(Request) - 1)) :
                   Resolved(reg.handler)

\* the index of the marker of a route prefix/:name or prefix/*name whose
\* variable is its last segment and its only one; 0 for other routes
VarIndex(path, marker) ==
    LET at == {i \in 2..(Len(path) - 1) :
                  /\ path[i] = marker
                  /\ path[i - 1] = "/"
                  /\ \A j \in 1..Len(path) : j # i => ~IsMarker(path[j])
                  /\ \A j \in (i + 1)..Len(path) : path[j] # "/"}
    IN IF at = {} THEN 0 ELSE CHOOSE i \in at : TRUE

VarPrefix(path, marker) == SubSeq(path, 1, VarIndex(path, marker) - 1)
VarName(path, marker) == SubSeq(path, VarIndex(path, marker) + 1, Len(path))

\* a non-empty value without "/"
IsValue(v) == v # <<>> /\ \A j \in 1..Len(v) : v[j] # "/"

ParamRoutes(method) ==
    {reg \in regs : reg.op = "handle" /\ reg.router = Main /\ reg.method = method
                    /\ reg.handler.kind = "fn" /\ VarIndex(reg.path, ":") > 0}

\* C3: with all registrations succeeded and prefix/:name registered with h, a
\* request prefix/v or prefix/v/ gets h and params {name: v}, and a request for
\* the prefix alone, when that is no route, gets no handler.
C3_ParameterExtraction ==
    (ServedLast /\ AllSucceeded) =>
        \A reg \in ParamRoutes(last.method) :
            LET prefix == VarPrefix(reg.path, ":")
                name == VarName(reg.path, ":")
                rest == SubstrFrom(Request, Len(prefix))
                v == IF EndsWithSlash(rest) THEN SubSeq(rest, 1, Len(rest) - 1) ELSE rest
                bare == SubSeq(prefix, 1, Len(prefix) - 1)
            IN /\ (StartsWith(Request, prefix) /\ IsValue(v)) =>
                      Resolved(reg.handler) /\ result.params = {<<name, v>>}
               /\ (Request \in {prefix, bare}
                     /\ Routes(Main, last.method, prefix) = {}
                     /\ Routes(Main, last.method, bare) = {}) =>
                      Resolved(NULL)

WildcardRoutes(method) ==
    {reg \in regs : reg.op = "handle" /\ reg.router = Main /\ reg.method = method
                    /\ reg.handler.kind = "fn" /\ VarIndex(reg.path, "*") > 0}

Groups(method) ==
    {reg \in regs : reg.op = "group" /\ reg.method = method /\ reg.handler.kind = "tree"}

\* C5: with all registrations succeeded, Sub holding h for "/" and attached by
\* group(prefix, Sub), the requests prefix and prefix/ get h, and a request
\* prefix + q gets what lookup of q in the tree of Sub gives.
C5_GroupDelegation ==
    (ServedLast /\ AllSucceeded) =>
        \A g \in Groups(last.method) :
            LET q == SubstrFrom(Request, Len(g.path))
                sub == buildStack(nodes, g.handler.ref, q, <<>>)
            IN /\ Request \in {g.path, g.path \o <<"/">>} =>
                      \A reg \in Routes(Sub, last.method, <<"/">>) : Resolved(reg.handler)
               /\ (StartsWith(Request, g.path) /\ q # <<>>) =>
                      /\ result.err = sub.err
                      /\ result.handler = sub.handler
                      /\ result.params = sub.params

RECURSIVE InCallOrder(_)
\* the handlers of a set of registrations, in the order of the calls
InCallOrder(rs) ==
    IF rs = {} THEN <<>>
    ELSE LET first == CHOOSE reg \in rs : \A o \in rs : reg.handler.ref <= o.handler.ref
         IN <<first.handler>> \o InCallOrder(rs \ {first})

\* the middleware attached with use to the tree of a router for a method
Attached(r, method) ==
    InCallOrder({reg \in regs : reg.op = "use" /\ reg.router = r /\ reg.method = method})

\* the handler belongs to a route of Sub, reached through a group
UnderGroup(h) == \E reg \in regs : reg.op = "handle" /\ reg.router = Sub /\ reg.handler = h

\* C6: the stack of a request that resolves to a handler h is the middleware
\* attached to the root of Main, then that of the root of Sub for a route
\* under a group, then h.
C6_MiddlewareOnThePath ==
    (ServedLast /\ result.err = "" /\ result.handler # NULL) =>
        result.stack = Attached(Main, last.method)
                         \o (IF UnderGroup(result.handler)
                             THEN Attached(Sub, last.method) ELSE <<>>)
                         \o <<result.handler>>

\* the call made last is a conflicting registration: prefix/:b after
\* prefix/:a, or a path that is registered already
ConflictingVariable ==
    /\ last.op = "handle" /\ last.handler.kind = "fn"
    /\ VarIndex(last.path, ":") > 0
    /\ \E reg \in ParamRoutes(last.method) :
           /\ last.router = Main
           /\ VarPrefix(reg.path, ":") = VarPrefix(last.path, ":")
           /\ VarName(reg.path, ":") # VarName(last.path, ":")

DuplicatePath ==
    /\ last.op = "handle" /\ last.handler.kind = "fn"
    /\ \E reg \in Routes(last.router, last.method, last.path) : reg.handler # last.handler

\* C7: registering prefix/:b after prefix/:a fails with the variable error and
\* registering a registered path again fails with the duplicate error.
C7_ConflictRejection ==
    /\ ConflictingVariable => last.err = ErrVariable
    /\ DuplicatePath => last.err = ErrDuplicate

RegistrationErrors ==
    {ErrSlash, ErrDuplicate, ErrVariable, ErrChildren, ErrTwoVars, ErrUnnamed,
     ErrWildEnd, ErrWildHandle, ErrWildSlash, ErrGroupChild}

\* what the claim compares of a tree: the nodes and of each its segment, type,
\* children, childOrder, handler and priority
Shape(ns) ==
    [id \in 1..Len(ns) |->
        [path |-> ns[id].path, nodeType |-> ns[id].nodeType,
         children |-> ns[id].children, childKeys |-> ns[id].childKeys,
         handler |-> ns[id].handler, priority |-> ns[id].priority]]

\* C8: a registration call that ends in a registration error leaves the trees
\* as they were before the call.
C8_ErrorLeavesTreeUnmodified ==
    [][(nreg' = nreg + 1 /\ last'.op \in {"handle", "group"}
          /\ last'.err \in RegistrationErrors) =>
             Shape(nodes') = Shape(nodes) /\ trees' = trees]_vars

\* C9: a served request ends with its stack being run or with a not-found
\* response; a method without a tree gets the not-found response.
C9_ServeOutcomes ==
    ServedLast =>
        /\ response \in {"walk", "notFound"}
        /\ response = "walk" <=> (result.err = "" /\ result.handler # NULL)
        /\ trees[Main][last.method] = 0 => response = "notFound"

RECURSIVE Sum(_)
Sum(seq) == IF seq = <<>> THEN 0 ELSE Head(seq) + Sum(Tail(seq))

\* the stack walkStack was called with
Given == result.stack

AllFunctions == \A i \in 1..Len(Given) : IsFunction(Given[i])

\* C10 as stated: a layer is invoked only after the layer before it has
\* called next.
C10_NextBeforeLaterLayer ==
    \A k \in 1..(Len(started) - 1) : nexts[k] >= 1

\* C10, for layers that call next at most once: the layers are invoked in
\* stack order from the first, each after the first by one call of next, a
\* layer only after the one before it called next, and once every layer has
\* called next every layer was invoked once and nothing is left to run.
C10_SequentialWhenNextAtMostOnce ==
    /\ Len(started) <= Len(Given)
    /\ \A k \in 1..Len(started) : started[k] = Given[k]
    /\ response = "walk" => started \o stack = Given
    /\ Len(started) <= 1 + Sum(nexts)
    /\ (\A k \in 1..Len(started) : nexts[k] <= 1) =>
           \A k \in 1..(Len(started) - 1) : nexts[k] = 1
    /\ (AllFunctions /\ started # <<>> /\ \A k \in 1..Len(started) : nexts[k] = 1) =>
           started = Given /\ stack = <<>>

\* three layers, each invoked once and each having called next once
C10_Witness ==
    /\ Len(Given) = MaxLayers
    /\ started = Given
    /\ nexts = [k \in 1..MaxLayers |-> 1]
    /\ stack = <<>>

RootMiddleware(ns, tr, r, method) ==
    IF tr[r][method] = 0 THEN <<>> ELSE ns[tr[r][method]].middleware

\* C11: use(middleware) and use('*', middleware) return normally and append
\* the middleware to the root of the tree of each of the seven methods,
\* creating the trees that are missing; use(method, middleware) appends it to
\* the root of that method's tree and leaves the other methods alone.
C11_UseAppendsToRoots ==
    [][(last'.op = "use" /\ nreg' = nreg + 1) =>
          /\ last'.err = ""
          /\ \A m \in MethodSet :
                IF last'.method \in {"*", m}
                THEN /\ trees'[last'.router][m] # 0
                     /\ RootMiddleware(nodes', trees', last'.router, m)
                          = Append(RootMiddleware(nodes, trees, last'.router, m),
                                   last'.handler)
                ELSE /\ trees'[last'.router][m] = trees[last'.router][m]
                     /\ RootMiddleware(nodes', trees', last'.router, m)
                          = RootMiddleware(nodes, trees, last'.router, m)]_vars

\* the groups of Main for a method that were attached with
\* group(method, prefix, Sub)
VerbGroups(method) ==
    {reg \in regs : reg.op = "group" /\ reg.method = method
                    /\ reg.handler.kind = "router"}

\* C12: with all registrations succeeded and Sub attached by
\* group(method, prefix, Sub), a request prefix + q for that method gets what
\* lookup of q in the tree of Sub for the method gives.
C12_VerbGroupDelegation ==
    (ServedLast /\ AllSucceeded) =>
        \A g \in VerbGroups(last.method) :
            LET q == SubstrFrom(Request, Len(g.path))
                root == trees[g.handler.ref][last.method]
                sub == buildStack(nodes, root, q, <<>>)
            IN (StartsWith(Request, g.path) /\ q # <<>> /\ root # 0) =>
                   /\ result.err = sub.err
                   /\ result.handler = sub.handler
                   /\ result.params = sub.params

UpperChar(c) ==
    CASE c = "a" -> "A"
      [] c = "b" -> "B"
      [] c = "c" -> "C"
      [] c = "v" -> "V"
      [] c = "x" -> "X"
      [] c = "y" -> "Y"
      [] c = "f" -> "F"
      [] OTHER -> c

RECURSIVE CaseVariants(_)
\* the paths that differ from p in letter case only
CaseVariants(p) ==
    IF p = <<>> THEN {<<>>}
    ELSE {<<c>> \o v : c \in {LowerChar(Head(p)), UpperChar(LowerChar(Head(p)))},
                       v \in CaseVariants(Tail(p))}

Lowered(p) == [k \in 1..Len(p) |-> LowerChar(p[k])]

\* C13: a request gets the same handler as every request that differs from it
\* in letter case only, and registering a path in any letter case does to the
\* trees what registering its lower-cased form does.
C13_CaseInsensitive ==
    /\ ServedLast /\ trees[Main][last.method] # 0 =>
           \A q \in CaseVariants(last.path) :
               LET other == dispatch(nodes, trees, Main, last.method, q)
               IN other.err = result.err /\ other.handler = result.handler
    /\ (~Serving /\ nreg < MaxCalls) =>
           \A c \in HandleCalls(app) : \A v \in CaseVariants(c[3]) :
               handle(nodes, trees, c[1], c[2], v, Fn(nreg + 1), FALSE)
                 = handle(nodes, trees, c[1], c[2], Lowered(v), Fn(nreg + 1), FALSE)

\* a request written in upper case gets the handler of the route, which was
\* registered in upper case too
C13_Witness ==
    /\ ServedLast /\ AllSucceeded
    /\ last.path = P_A
    /\ Cardinality(Routes(Main, last.method, P_a)) = 1
    /\ \A reg \in Routes(Main, last.method, P_a) : Resolved(reg.handler)
    /\ nreg = 1

\* the children of a node are in descending order of priority
Descending(ns, id) ==
    \A i \in 1..(Len(ns[id].children) - 1) :
        ns[ns[id].children[i]].priority >= ns[ns[id].children[i + 1]].priority

\* C14: the children of every node are in descending order of priority, and
\* reprioritize(index) adds one to the priority of the child at index, leaves
\* the children in that order and returns the index where that child now is.
C14_PriorityOrdering ==
    \A id \in 1..Len(nodes) :
        /\ Descending(nodes, id)
        /\ \A index \in 0..(Len(nodes[id].children) - 1) :
               LET child == nodes[id].children[index + 1]
                   r == reprioritize(nodes, id, index)
               IN /\ r.err = ""
                  /\ r.nodes[child].priority = nodes[child].priority + 1
                  /\ Descending(r.nodes, id)
                  /\ r.index \in 0..(Len(r.nodes[id].children) - 1)
                  /\ r.nodes[id].children[r.index + 1] = child

\* the nodes whose children are static: none of them is a variable node
StaticParents(ns) ==
    {id \in 1..Len(ns) :
        /\ ns[id].children # <<>>
        /\ \A i \in 1..Len(ns[id].children) :
               ns[ns[id].children[i]].nodeType \notin {PARAM, WILDCARD}}

\* childKeys[i] is the first character of children[i]'s path, for every i;
\* the child that addChild leaves with an empty path in front of a wildcard
\* (send.js 398) has no first character and is not compared
InSync(ns, id) ==
    /\ Len(ns[id].childKeys) = Len(ns[id].children)
    /\ \A i \in 1..Len(ns[id].children) :
           ns[ns[id].children[i]].path # <<>> =>
               ns[id].childKeys[i] = ns[ns[id].children[i]].path[1]

\* s with the element at 0-based position from moved to 0-based position to
Moved(s, from, to) ==
    LET rest == SubSeq(s, 1, from) \o SubSeq(s, from + 2, Len(s))
    IN SubSeq(rest, 1, to) \o <<s[from + 1]>> \o SubSeq(rest, to + 1, Len(rest))

\* C15: in every node childKeys and children have the same length and
\* childKeys[i] is the first character of children[i]'s segment; a
\* reprioritize call that moves a child from index to newIndex moves exactly
\* that one character of childKeys and keeps the others in their order.
C15_ChildKeysInSync ==
    \A id \in StaticParents(nodes) :
        /\ InSync(nodes, id)
        /\ \A index \in 0..(Len(nodes[id].children) - 1) :
               LET r == reprioritize(nodes, id, index)
               IN /\ r.err = ""
                  /\ r.index \in 0..(Len(nodes[id].children) - 1)
                  /\ r.nodes[id].childKeys = Moved(nodes[id].childKeys, index, r.index)

\* the roots of the trees of both routers
Roots == {trees[r][m] : r \in {Main, Sub}, m \in MethodSet} \ {0}

\* the stack of a returned result ends with the handler of the result
EndsWithHandler(r) ==
    /\ r.stack # <<>>
    /\ r.stack[Len(r.stack)] = r.handler

\* C16: every result that a lookup returns, on any tree and for any request
\* path, has a non-empty stack whose last element is the returned handler;
\* when the handler is null (nothing matched) the last element is null.  A
\* lookup that throws returns no result (see C1 and C12 for those).  The
\* trees are those of the state before the request: serving changes no tree.
C16_StackEndsWithHandler ==
    /\ (ServedLast /\ result.err = "") =>
           /\ EndsWithHandler(result)
           /\ result.handler = NULL => result.stack[Len(result.stack)] = NULL
    /\ ~Serving =>
           \A root \in Roots : \A q \in Requests(app) :
               LET r == buildStack(nodes, root, q[2], <<>>)
               IN r.err = "" =>
                      /\ EndsWithHandler(r)
                      /\ r.handler = NULL => r.stack[Len(r.stack)] = NULL

C16_Witness ==
    /\ ServedLast /\ AllSucceeded /\ result.err = ""
    /\ result.handler = NULL
    /\ Len(result.stack) > 1

\* paths that break the grammar of route paths: two markers in one segment, a
\* marker without a name, a wildcard that is not the last segment and a
\* wildcard that does not follow a "/"
Malformed == {P_a_xy, P_a_colon, P_a_f_b, P_af}

Rejected(out) == out.err \notin {"", Hang}

Holds(ns, handler) == \E id \in 1..Len(ns) : ns[id].handler = handler

\* C17: on any tree, empty or not, the registration of a path that breaks the
\* grammar is rejected with an error and its handler is in no tree.
C17_GrammarEnforced ==
    /\ (last.op = "handle" /\ last.path \in Malformed) =>
           /\ Rejected(last)
           /\ ~Holds(nodes, last.handler)
    /\ (~Serving /\ nreg < MaxCalls) =>
           \A m \in {"GET", "POST"} : \A path \in Malformed :
               LET out == handle(nodes, trees, Main, m, path, Fn(nreg + 1), FALSE)
               IN Rejected(out) /\ ~Holds(out.nodes, Fn(nreg + 1))

\* the nodes below and at id, each with its full path from the root
RECURSIVE PathsTo(_, _, _)
PathsTo(ns, id, prefix) ==
    {<<id, prefix \o ns[id].path>>} \cup
    UNION {PathsTo(ns, ns[id].children[i], prefix \o ns[id].path) :
               i \in 1..Len(ns[id].children)}

\* the full paths of the GROUP nodes of the tree with root root
GroupPaths(ns, root) ==
    {p[2] : p \in {q \in PathsTo(ns, root, <<>>) : ns[q[1]].nodeType = GROUP}}

Childless(ns) ==
    \A id \in 1..Len(ns) : ns[id].nodeType = GROUP => ns[id].children = <<>>

\* C18: a node of type GROUP has no children, and the registration of a path
\* that goes on after the path of a GROUP node fails with the error "Can not
\* add path as child of defined group".
C18_GroupHasNoChildren ==
    /\ Childless(nodes)
    /\ (~Serving /\ nreg < MaxCalls) =>
           \A c \in {d \in HandleCalls(app) : trees[d[1]][d[2]] # 0} :
               \A gp \in GroupPaths(nodes, trees[c[1]][c[2]]) :
                   (StartsWith(c[3], gp) /\ Len(c[3]) > Len(gp)) =>
                       LET out == handle(nodes, trees, c[1], c[2], c[3], Fn(nreg + 1), FALSE)
                       IN out.err = ErrGroupChild /\ Childless(out.nodes)

\* the nodes of the tree with root root; none when there is no tree
NodesOf(ns, root) ==
    IF root = 0 THEN {} ELSE {p[1] : p \in PathsTo(ns, root, <<>>)}

\* the tree of method m of router r is what it was before the step
SameTree(r, m) ==
    /\ trees'[r][m] = trees[r][m]
    /\ \A id \in NodesOf(nodes, trees[r][m]) : nodes'[id] = nodes[id]

\* a handle call changes the tree of its method only, and makes that tree
\* when the call is the first one for the method to pass the argument checks
HandleFrame ==
    (last'.op = "handle" /\ nreg' = nreg + 1) =>
        /\ \A r \in Routers : \A m \in MethodSet :
               <<r, m>> # <<last'.router, last'.method>> => SameTree(r, m)
        /\ IF last'.err \in {ErrSlash, ErrHandler}
           THEN trees' = trees /\ nodes' = nodes
           ELSE /\ trees'[last'.router][last'.method] # 0
                /\ trees[last'.router][last'.method] # 0 =>
                       trees'[last'.router][last'.method]
                         = trees[last'.router][last'.method]

\* a request gets no handler registered for another method, and none at all
\* when its method has no tree
ServedOwnMethod ==
    ServedLast =>
        /\ \A reg \in regs :
               (reg.op = "handle" /\ result.handler = reg.handler) =>
                   reg.method = last.method
        /\ trees[Main][last.method] = 0 =>
               result.handler = NULL /\ started = <<>>

\* C19: handle(method, path, handler) makes the tree of method when there is
\* none and changes that tree only; a request never gets a handler registered
\* for another method, and a request for a method without a tree is a miss.
C19_MethodIsolation == [][HandleFrame]_vars /\ []ServedOwnMethod

C19_Witness ==
    /\ ServedLast /\ last.method = "POST"
    /\ Routes(Main, "GET", P_a) # {}
    /\ \E reg \in Routes(Main, "POST", P_a) : Resolved(reg.handler)

\* the path q is an instance of the pattern pat: a ":name" stands for a
\* non-empty run of characters without "/", a "*name" for all that is left
RECURSIVE Matches(_, _)
Matches(pat, q) ==
    IF pat = <<>> THEN q = <<>>
    ELSE IF pat[1] = "*" THEN TRUE
    ELSE IF pat[1] = ":"
    THEN LET name == ValueEnd(pat, 0)
             value == ValueEnd(q, 0)
         IN value > 0 /\ Matches(SubstrFrom(pat, name), SubstrFrom(q, value))
    ELSE q # <<>> /\ q[1] = pat[1] /\ Matches(Tail(pat), Tail(q))

\* q is an instance of pat exactly or up to one trailing "/"
MatchesUpToSlash(pat, q) ==
    \/ Matches(pat, q)
    \/ Matches(pat \o <<"/">>, q)
    \/ Matches(pat, q \o <<"/">>)

\* the patterns under which the handler h can be reached with method: the
\* paths of its routes on the main router, and the paths of its routes on
\* the sub-router after the prefix of a group
PatternsOf(h, method) ==
    {reg.path : reg \in {x \in regs : x.op = "handle" /\ x.router = Main
                                       /\ x.method = method /\ x.handler = h}}
    \cup {g.path \o reg.path :
            g \in {x \in regs : x.op = "group" /\ x.method = method},
            reg \in {x \in regs : x.op = "handle" /\ x.router = Sub
                                  /\ x.method = method /\ x.handler = h}}

\* C20: after registrations that all succeeded, a handler that a request gets
\* is the handler of a registered route whose pattern the request path
\* matches, exactly or up to one trailing "/".
C20_LookupSoundness ==
    (ServedLast /\ AllSucceeded /\ result.err = "" /\ result.handler # NULL) =>
        \E pat \in PatternsOf(result.handler, last.method) :
            MatchesUpToSlash(pat, Request)

\* the routes registered so far on paths without a variable
StaticRoutes ==
    {reg \in regs : reg.op = "handle" /\ reg.handler.kind = "fn"
                    /\ \A k \in 1..Len(reg.path) : ~IsMarker(reg.path[k])}

\* what a lookup of a route's own path gives in the trees tr of the arena ns
Outcome(ns, tr, reg) ==
    LET r == dispatch(ns, tr, reg.router, reg.method, reg.path)
    IN [err |-> r.err, handler |-> r.handler, params |-> r.params]

\* C21: after every successful registration, each path registered before it
\* still dispatches to the same handler and the same params as before it.
C21_AppendOnly ==
    [][(nreg' = nreg + 1 /\ last'.op \in {"handle", "group"} /\ last'.err = "") =>
          \A reg \in StaticRoutes :
              Outcome(nodes', trees', reg) = Outcome(nodes, trees, reg)]_vars

\* the tree of method m of router r has no PARAM node
NoParamNode(ns, tr, r, m) ==
    \A id \in NodesOf(ns, tr[r][m]) : ns[id].nodeType # PARAM

\* the nodes that registering /a/:x/b is to build: a node whose path ends
\* with the text before the marker, its PARAM child ":x" and the only child
\* of that, "/b", with the handler
BuiltParam(ns, root, handler) ==
    \E id \in NodesOf(ns, root) :
        /\ EndsWithSlash(ns[id].path)
        /\ Len(ns[id].children) = 1
        /\ LET param == ns[ns[id].children[1]]
           IN /\ param.nodeType = PARAM
              /\ param.path = <<":", "x">>
              /\ Len(param.children) = 1
              /\ ns[param.children[1]].path = <<"/", "b">>
              /\ ns[param.children[1]].handler = handler

\* C22: registering /a/:x/b on a tree that has no node for the parameter yet
\* succeeds and builds the PARAM node ":x" below the text before it and above
\* one child with "/b" and the handler; /a/v/b then gets the handler with
\* params {x: v}.
C22_ParamThenSuffix ==
    [][(nreg' = nreg + 1 /\ last'.op = "handle" /\ last'.path = P_a_x_b
          /\ NoParamNode(nodes, trees, last'.router, last'.method)) =>
          /\ last'.err = ""
          /\ BuiltParam(nodes', trees'[last'.router][last'.method], last'.handler)
          /\ LET r == dispatch(nodes', trees', last'.router, last'.method, P_a_v_b)
             IN /\ r.err = ""
                /\ r.handler = last'.handler
                /\ r.params = {<<(<<"x">>), (<<"v">>)>>}]_vars

\* the registrations of the program on the main router that can succeed:
\* handle calls with a function and group calls, as <<op, router, method, path>>
RouteCalls ==
    {<<"handle", c[1], c[2], c[3]>> :
         c \in {d \in HandleCalls(app) : d[1] = Main /\ d[4] = "fn"}}
    \cup {<<"group", Main, g[1], g[2]>> : g \in GroupCalls(app)}

\* the call c made on the routers <<ns, tr>>, with handler h when it is a handle
Apply(ns, tr, c, h) ==
    IF c[1] = "handle" THEN handle(ns, tr, c[2], c[3], c[4], h, FALSE)
    ELSE group(ns, tr, c[2], c[3], c[4], Sub)

\* what the main router gives for the request q
Answer(ns, tr, q) ==
    LET r == IF tr[Main][q[1]] = 0 THEN NoResult ELSE dispatch(ns, tr, Main, q[1], q[2])
    IN [err |-> r.err, handler |-> r.handler, params |-> r.params]

\* C23: two registrations on the main router that succeed in one order
\* succeed in the other order too, and the routers that the two orders build give the same handler
\* and the same params for every request.
C23_OrderIndependence ==
    (~Serving /\ AllSucceeded /\ nreg + 2 <= MaxCalls) =>
        \A c1 \in RouteCalls : \A c2 \in RouteCalls \ {c1} :
            LET h1 == Fn(nreg + 1)
                h2 == Fn(nreg + 2)
                a1 == Apply(nodes, trees, c1, h1)
                a12 == Apply(a1.nodes, a1.trees, c2, h2)
                b2 == Apply(nodes, trees, c2, h2)
                b21 == Apply(b2.nodes, b2.trees, c1, h1)
            IN (a1.err = "" /\ a12.err = "") =>
                   /\ b2.err = "" /\ b21.err = ""
                   /\ \A q \in Requests(app) :
                          Answer(a12.nodes, a12.trees, q) = Answer(b21.nodes, b21.trees, q)

\* a node that a route was added to: it has a segment or children
InUse(n) == n.path # <<>> \/ n.children # <<>>

\* C24: a node keeps the type it has once it is in a tree, through every later
\* registration; the root of a tree that has a route stays of type ROOT.
C24_TypeFixed ==
    [][/\ \A id \in 1..Len(nodes) :
             InUse(nodes[id]) => nodes'[id].nodeType = nodes[id].nodeType
       /\ \A r \in Routers : \A m \in MethodSet :
             (trees[r][m] # 0 /\ nodes[trees[r][m]].nodeType = ROOT) =>
                 nodes'[trees'[r][m]].nodeType = ROOT]_vars

\* the node has exactly one child, and that is a variable node
OneVariableChild(ns, id) ==
    /\ Len(ns[id].children) = 1
    /\ ns[ns[id].children[1]].nodeType \in {PARAM, WILDCARD}

\* the wildcard marker: the WILDCARD node with the empty segment that addChild
\* puts above the node with the name (send.js 407-420)
IsMarkerNode(n) == n.nodeType = WILDCARD /\ n.path = <<>>

\* C25 as stated: varChild is true exactly for the nodes whose only child is a
\* PARAM or WILDCARD node, and such a node has an empty childKeys.
C25_VarChildIffVariableChild ==
    \A id \in 1..Len(nodes) :
        /\ nodes[id].varChild <=> OneVariableChild(nodes, id)
        /\ nodes[id].varChild => nodes[id].childKeys = <<>>

\* C25, amended: varChild is true exactly for the nodes whose only child is a
\* PARAM node or the WILDCARD node that has the name, and such a node has an
\* empty childKeys; the node above a wildcard marker has varChild false and
\* the marker's "/" as its childKeys.
C25_VarChildIffNamedVariableChild ==
    \A id \in 1..Len(nodes) :
        /\ nodes[id].varChild <=>
               /\ OneVariableChild(nodes, id)
               /\ ~IsMarkerNode(nodes[nodes[id].children[1]])
        /\ nodes[id].varChild => nodes[id].childKeys = <<>>
        /\ (Len(nodes[id].children) = 1 /\ IsMarkerNode(nodes[nodes[id].children[1]])) =>
               ~nodes[id].varChild /\ nodes[id].childKeys = <<"/">>

\* a wildcard route is in a tree: its marker has varChild, the node above the
\* marker has one child, the marker
C25_Witness ==
    /\ AllSucceeded
    /\ \E id \in 1..Len(nodes) :
           Len(nodes[id].children) = 1 /\ IsMarkerNode(nodes[nodes[id].children[1]])
    /\ \E id \in 1..Len(nodes) : IsMarkerNode(nodes[id]) /\ nodes[id].varChild

\* C26: a request that gets the handler of a wildcard route prefix/*name has
\* the key name in its params.
C26_WildcardParamPresent ==
    (ServedLast /\ result.err = "") =>
        \A reg \in WildcardRoutes(last.method) :
            result.handler = reg.handler =>
                \E kv \in result.params : kv[1] = VarName(reg.path, "*")

\* C27: after handle and group calls that all succeeded, only nodes of type
\* GROUP hold a sub-router in their handler slot, and every element of the
\* stack of a request that gets a handler is a function.
C27_SubRouterOnlyInGroup ==
    AllSucceeded =>
        /\ \A id \in 1..Len(nodes) :
               nodes[id].handler.kind \in {"tree", "router"} => nodes[id].nodeType = GROUP
        /\ (ServedLast /\ result.err = "" /\ result.handler # NULL) =>
               \A k \in 1..Len(result.stack) : IsFunction(result.stack[k])

====
